---- MODULE Spec2Model ----
(***************************************************************************)
(* Model of the AdMob MCP server: the process entry (index.ts), the OAuth2 *)
(* authorization flow and credential store (auth.ts) and the tool          *)
(* dispatcher (tools.ts).                                                  *)
(*                                                                         *)
(* One process of the program runs at a time (mode).  The token file and   *)
(* the client secret file live on disk and survive the processes.  The     *)
(* environment is the operator (who may replace or remove the token file   *)
(* while no authorization flow runs), the HTTP clients of the loopback     *)
(* listener, the OAuth provider and the AdMob API.                         *)
(*                                                                         *)
(* JavaScript values: Undefined and Null are the strings below; a string   *)
(* is falsy when it is Undefined, Null or empty.                           *)
(***************************************************************************)
EXTENDS Integers, Sequences, FiniteSets, TLC

\* ------------------------------------------------------------------ bounds
MaxRuns == 2
MaxRequests == 2
MaxPages == 3
MaxPageLen == 1

\* ------------------------------------------------------- JavaScript values
Undefined == "undefined"
Null == "null"

Truthy(s) == s \notin {Undefined, Null, ""}

\* ------------------------------------------------------------ files on disk
\* credentials/client_secret.json, as readFileSync and JSON.parse give it to
\* the process that reads it: unreadable (absent, or not JSON), or an object
\* with an "installed" key, a "web" key, or neither.
UnreadSecret ==
  [kind |-> "unreadable", section |-> "none", client_id |-> Undefined, client_secret |-> Undefined]

ClientSecretFiles ==
  { UnreadSecret,
    [kind |-> "json",    section |-> "none", client_id |-> Undefined, client_secret |-> Undefined],
    [kind |-> "json",    section |-> "installed", client_id |-> "cid-i", client_secret |-> "sec-i"],
    [kind |-> "json",    section |-> "web", client_id |-> "cid-w", client_secret |-> "sec-w"] }

\* credentials/token.json: absent, not JSON, or a JSON object.  `extra` is a
\* key the program never writes (a key of some earlier, foreign content).
NoTokenFile ==
  [kind |-> "absent", type |-> Undefined, client_id |-> Undefined,
   client_secret |-> Undefined, refresh_token |-> Undefined, extra |-> Undefined]

GarbageTokenFile ==
  [kind |-> "garbage", type |-> Undefined, client_id |-> Undefined,
   client_secret |-> Undefined, refresh_token |-> Undefined, extra |-> Undefined]

OperatorTokenFiles ==
  { NoTokenFile, GarbageTokenFile,
    [kind |-> "json", type |-> "authorized_user", client_id |-> "cid-i",
     client_secret |-> "sec-i", refresh_token |-> "r0", extra |-> "legacy"],
    [kind |-> "json", type |-> "authorized_user", client_id |-> "cid-i",
     client_secret |-> "sec-i", refresh_token |-> Undefined, extra |-> "legacy"] }

\* Refresh tokens the provider may return from the code exchange.
RefreshTokens == {Undefined, "r1"}

\* JSON.stringify drops a key whose value is undefined; JSON.parse of the
\* text gives an object without that key, which reads as undefined again.
JsonStringify(obj) ==
  [k \in {f \in DOMAIN obj : obj[f] # Undefined} |-> obj[k]]

JsonParseToken(text) ==
  [kind |-> "json",
   type |-> IF "type" \in DOMAIN text THEN text["type"] ELSE Undefined,
   client_id |-> IF "client_id" \in DOMAIN text THEN text["client_id"] ELSE Undefined,
   client_secret |-> IF "client_secret" \in DOMAIN text THEN text["client_secret"] ELSE Undefined,
   refresh_token |-> IF "refresh_token" \in DOMAIN text THEN text["refresh_token"] ELSE Undefined,
   extra |-> IF "extra" \in DOMAIN text THEN text["extra"] ELSE Undefined]

\* ---------------------------------------------------------------- auth.ts
\* loadSavedCredentialsIfExist: readFileSync / JSON.parse / google.auth.fromJSON
\* inside try, null from the catch.  fromJSON accepts an authorized_user
\* record only with client_id, client_secret and refresh_token all present.
LoadsAnyJson(file) ==
  IF file.kind = "json"
  THEN [refresh_token |-> file.refresh_token]
  ELSE [refresh_token |-> Null]

loadSavedCredentialsIfExist(file) ==
  IF /\ file.kind = "json"
     /\ file.type = "authorized_user"
     /\ Truthy(file.client_id)
     /\ Truthy(file.client_secret)
     /\ Truthy(file.refresh_token)
  THEN [refresh_token |-> file.refresh_token]
  ELSE [refresh_token |-> Null]

IsClient(c) == c.refresh_token # Null

\* `const key = keys.installed || keys.web; if (!key) ...`
HasKey(secret) == secret.kind = "json" /\ secret.section \in {"installed", "web"}

ReadableSecret(secret) == secret.kind = "json"

\* authorize(): `if (client) return client;` before authenticate().
AlwaysAuthenticate(client) == FALSE

ReturnsSavedClient(client) == IsClient(client)

\* saveCredentials: the payload handed to writeFileSync.
MergedPayload(key, refresh, old) ==
  JsonStringify([type |-> "authorized_user",
                 client_id |-> key.client_id,
                 client_secret |-> key.client_secret,
                 refresh_token |-> IF old.kind = "json" /\ Truthy(old.refresh_token)
                                   THEN old.refresh_token ELSE refresh,
                 extra |-> old.extra])

TokenPayload(key, refresh, old) ==
  JsonStringify([type |-> "authorized_user",
                 client_id |-> key.client_id,
                 client_secret |-> key.client_secret,
                 refresh_token |-> refresh])

\* The request handler of the loopback listener.
\* A request URL: its path, whether its query string mentions the text
\* "/oauth2callback" in some other parameter, and its code parameter
\* (Null when the parameter is missing, as URLSearchParams.get returns).
Url(path, mentions, code) == [path |-> path, mentions |-> mentions, code |-> code]

Urls ==
  { Url("/oauth2callback", FALSE, Null), Url("/oauth2callback", FALSE, ""),
    Url("/oauth2callback", FALSE, "c1"), Url("/favicon.ico", FALSE, Null),
    Url("/favicon.ico", TRUE, Null), Url("/favicon.ico", TRUE, "c1") }

\* req.url.includes("/oauth2callback")
IsCallback(u) == u.path = "/oauth2callback" \/ u.mentions

\* qs.get("code")
QsGetCode(u) == u.code

\* Whether the listener is still open after a callback with this code was
\* handled: httpServer.close() comes before the code is looked at.
OpenUnlessCode(code) == ~Truthy(code)

ListenerOpenAfterCallback(code) == FALSE

\* `if (code)`: the exchange is started for a truthy code only.
StartsExchange(code) == Truthy(code)

\* ---------------------------------------------------------------- tools.ts
ToolNames ==
  {"generate_network_report", "generate_mediation_report", "get_account",
   "list_ad_units", "list_apps"}

ReportTools == {"generate_network_report", "generate_mediation_report"}

ListTools == {"list_ad_units", "list_apps"}

\* A name no tool is registered under.
CalledNames == ToolNames \cup {"no_such_tool"}

\* `if (!publisherCode)`
PublisherUndefined(code) == code = Undefined

PublisherMissing(code) == ~Truthy(code)

\* Arguments of a report call.  An array argument is [def, v], a sort
\* condition is [def, field, order] (field: its dimension or metric); def is
\* FALSE when the key is missing, a string is Undefined when its key is.
NoArray == [def |-> FALSE, v |-> <<>>]

Arr(v) == [def |-> TRUE, v |-> v]

NoSort == [def |-> FALSE, field |-> Undefined, order |-> Undefined]

Sort(field, order) == [def |-> TRUE, field |-> field, order |-> order]

DimensionSorts ==
  { NoSort, Sort(Undefined, Undefined), Sort("", "ASCENDING"), Sort("DATE", ""),
    Sort("DATE", Undefined), Sort(Undefined, "ASCENDING"), Sort("DATE", "DESCENDING") }

MetricSorts ==
  { NoSort, Sort(Undefined, Undefined), Sort("", "ASCENDING"), Sort("CLICKS", ""),
    Sort("CLICKS", Undefined), Sort(Undefined, "DESCENDING"), Sort("CLICKS", "ASCENDING") }

Filter1 == [dimension |-> "COUNTRY", values |-> <<"US", "KR">>]

Filter2 == [dimension |-> "PLATFORM", values |-> <<"Android">>]

FilterLists == { NoArray, Arr(<<>>), Arr(<<Filter1, Filter2>>), Arr(<<Filter2, Filter1>>) }

NoArgs ==
  [def |-> FALSE, dateRangeStart |-> Undefined, dateRangeEnd |-> Undefined,
   metrics |-> NoArray, dimensions |-> NoArray, dimensionFilters |-> NoArray,
   dimensionSortCondition |-> NoSort, metricSortCondition |-> NoSort]

\* Calls that vary the required arguments, and calls with the required
\* arguments in place that vary the optional ones or the sort conditions.
RequiredVariants ==
  [def : {TRUE},
   dateRangeStart : {Undefined, "", "2024-01-01"},
   dateRangeEnd : {Undefined, "", "2024-01-07"},
   metrics : {NoArray, Arr(<<>>), Arr(<<"CLICKS">>)},
   dimensions : {NoArray},
   dimensionFilters : {NoArray},
   dimensionSortCondition : {NoSort, Sort("DATE", "DESCENDING")},
   metricSortCondition : {NoSort}]

OptionalVariants ==
  [def : {TRUE},
   dateRangeStart : {"2024-01-01"},
   dateRangeEnd : {"2024-01-07"},
   metrics : {Arr(<<"CLICKS", "IMPRESSIONS">>)},
   dimensions : {NoArray, Arr(<<>>), Arr(<<"DATE", "COUNTRY">>)},
   dimensionFilters : FilterLists,
   dimensionSortCondition : {NoSort},
   metricSortCondition : {NoSort}]

SortVariants ==
  [def : {TRUE},
   dateRangeStart : {"2024-01-01"},
   dateRangeEnd : {"2024-01-07"},
   metrics : {Arr(<<"CLICKS">>)},
   dimensions : {NoArray},
   dimensionFilters : {NoArray, Arr(<<Filter1>>)},
   dimensionSortCondition : DimensionSorts,
   metricSortCondition : MetricSorts]

ReportArgs == {NoArgs} \cup RequiredVariants \cup OptionalVariants \cup SortVariants

\* dateRangeStart.split("-").map(Number), destructured into year, month, day.
\* -1 stands for a part that is undefined.
SplitDate(s) ==
  CASE s = "2024-01-01" -> [year |-> 2024, month |-> 1, day |-> 1]
    [] s = "2024-01-07" -> [year |-> 2024, month |-> 1, day |-> 7]
    [] OTHER -> [year |-> 0, month |-> -1, day |-> -1]

\* `.split` on a missing date throws a TypeError.
SplitThrows(a) == a.dateRangeStart = Undefined \/ a.dateRangeEnd = Undefined

\* `if (!dateRangeStart || !dateRangeEnd || !metrics)`: an array is truthy,
\* also when it is empty.
MissingRequired(a) ==
  ~Truthy(a.dateRangeStart) \/ ~Truthy(a.dateRangeEnd) \/ ~a.metrics.def

\* Object.keys(cond).length
KeyCount(cond) ==
  Cardinality({k \in {"field", "order"} : cond[k] # Undefined})

\* `cond && cond.field.length > 0 && cond.order.length > 0`: "push", "skip",
\* or "throw" when .length is read off a missing field.
SortCheck(cond) ==
  IF ~cond.def THEN "skip"
  ELSE IF cond.field = Undefined THEN "throw"
  ELSE IF cond.field = "" THEN "skip"
  ELSE IF cond.order = Undefined THEN "throw"
  ELSE IF cond.order = "" THEN "skip"
  ELSE "push"

\* The outer `if` around the construction of sortConditions.
SortsSupplied(a) ==
  \/ a.dimensionSortCondition.def /\ KeyCount(a.dimensionSortCondition) > 0
  \/ a.metricSortCondition.def /\ KeyCount(a.metricSortCondition) > 0

SortThrows(a) ==
  /\ SortsSupplied(a)
  /\ \/ SortCheck(a.dimensionSortCondition) = "throw"
     \/ SortCheck(a.metricSortCondition) = "throw"

\* The two pushes, in the order of the code.
MetricFirst(dimEntry, metEntry) == metEntry \o dimEntry

PushBoth(dimEntry, metEntry) == dimEntry \o metEntry

sortConditions(a) ==
  IF ~SortsSupplied(a) THEN <<>>
  ELSE PushBoth(
         IF SortCheck(a.dimensionSortCondition) = "push"
         THEN <<[by |-> "dimension", name |-> a.dimensionSortCondition.field,
                 order |-> a.dimensionSortCondition.order]>>
         ELSE <<>>,
         IF SortCheck(a.metricSortCondition) = "push"
         THEN <<[by |-> "metric", name |-> a.metricSortCondition.field,
                 order |-> a.metricSortCondition.order]>>
         ELSE <<>>)

\* dimensionFilters.map(filter => ({dimension, matchesAny: {values}}))
MapFiltersBackwards(fs) ==
  [i \in 1..Len(fs) |->
     [dimension |-> fs[Len(fs) + 1 - i].dimension,
      matchesAny |-> [values |-> fs[Len(fs) + 1 - i].values]]]

MapFilters(fs) ==
  [i \in 1..Len(fs) |->
     [dimension |-> fs[i].dimension, matchesAny |-> [values |-> fs[i].values]]]

\* The report spec: `keys` are the optional keys that are set.
NoSpec ==
  [keys |-> {}, startDate |-> SplitDate(""), endDate |-> SplitDate(""),
   metrics |-> <<>>, dimensions |-> <<>>, dimensionFilters |-> <<>>,
   sortConditions |-> <<>>]

reportSpec(a) ==
  LET dims == a.dimensions.def /\ Len(a.dimensions.v) > 0
      filts == a.dimensionFilters.def /\ Len(a.dimensionFilters.v) > 0
      sorts == sortConditions(a)
  IN [keys |-> (IF dims THEN {"dimensions"} ELSE {})
               \cup (IF filts THEN {"dimensionFilters"} ELSE {})
               \cup (IF Len(sorts) > 0 THEN {"sortConditions"} ELSE {}),
      startDate |-> SplitDate(a.dateRangeStart),
      endDate |-> SplitDate(a.dateRangeEnd),
      metrics |-> a.metrics.v,
      dimensions |-> IF dims THEN a.dimensions.v ELSE <<>>,
      dimensionFilters |-> IF filts THEN MapFilters(a.dimensionFilters.v) ELSE <<>>,
      sortConditions |-> sorts]

\* Pagination.  A page of the provider: its items (def FALSE: no such key)
\* and its nextPageToken.  The provider serves every item once: item j of
\* page i is the number 10 * i + j.
ItemLists(i) == {[j \in 1..n |-> 10 * i + j] : n \in 0..MaxPageLen}

Pages(i) ==
  [items : {NoArray} \cup {Arr(v) : v \in ItemLists(i)},
   nextPageToken : {Undefined, Null, "", "t1"}]

\* `if (data.adUnits && data.adUnits.length > 0) all.push(...data.adUnits)`
Push(all, page) ==
  IF page.items.def /\ Len(page.items.v) > 0 THEN all \o page.items.v ELSE all

\* `pageToken = data.nextPageToken ?? undefined`
NextToken(page) ==
  IF page.nextPageToken = Null THEN Undefined ELSE page.nextPageToken

\* `while (pageToken)`
WhileDefined(token) == token # Undefined

WhilePageToken(token) == Truthy(token)

ListApi(name) == IF name = "list_ad_units" THEN "adUnits.list" ELSE "apps.list"

ReportApi(name) ==
  IF name = "generate_network_report" THEN "networkReport.generate"
  ELSE "mediationReport.generate"

NoRequest ==
  [api |-> "none", parent |-> Undefined, pageToken |-> Undefined, spec |-> NoSpec]

\* What the handler gave back: content (with or without isError) or a throw.
NoResponse ==
  [kind |-> "none", isError |-> FALSE, text |-> "", status |-> 0, items |-> <<>>]

Soft(text) ==
  [kind |-> "content", isError |-> TRUE, text |-> text, status |-> 0, items |-> <<>>]

Failed(text, status) ==
  [kind |-> "content", isError |-> TRUE, text |-> text, status |-> status, items |-> <<>>]

Content(text, items) ==
  [kind |-> "content", isError |-> FALSE, text |-> text, status |-> 0, items |-> items]

Thrown(text) ==
  [kind |-> "throw", isError |-> FALSE, text |-> text, status |-> 0, items |-> <<>>]

Statuses == {403, 500}

\* The end of the handler, reached when no branch matched the name:
\* throw new Error(`Unknown tool: ${name}`).
SoftUnknownTool(name) == Soft("Unknown tool")

UnknownTool(name) == Thrown("Unknown tool")

IdleCall ==
  [phase |-> "idle", name |-> "none", args |-> NoArgs, pageToken |-> Undefined,
   all |-> <<>>, pages |-> <<>>, sent |-> <<>>, last |-> NoRequest,
   response |-> NoResponse, client |-> FALSE, fileAtStart |-> NoTokenFile]

VARIABLES
  mode,            \* "off", "auth" or "serve": the process that runs
  run,             \* processes started so far
  tokenFile,       \* credentials/token.json
  clientSecretFile,\* credentials/client_secret.json as the process read it
  publisherCode,   \* process.env.PUBLISHER_CODE of the running process
  flow,            \* state of the authorization flow
  authError,       \* why the flow failed
  exit,            \* exit status of the last process that ended
  listening,       \* the listener is bound on port 3000
  browser,         \* "none", "launching", "opened", "failed"
  pending,         \* requests accepted by the listener, not yet handled
  nextReq,         \* id of the next request
  exchanges,       \* getToken calls in flight
  credentials,     \* oAuth2Client.credentials.refresh_token
  au,              \* history of the running process (ghost)
  call             \* the tool call being handled

vars == <<mode, run, tokenFile, clientSecretFile, publisherCode, flow,
          authError, exit, listening, browser, pending, nextReq,
          exchanges, credentials, au, call>>

NoHistory ==
  [mode |-> "off", tokenAtStart |-> NoTokenFile,
   opens |-> 0, writes |-> 0, binds |-> 0, saved |-> FALSE,
   exchanged |-> {}, codeless |-> {}, ignored |-> {},
   prevAuthOk |-> FALSE, prevCall |-> "none"]

Init ==
  /\ mode = "off"
  /\ run = 0
  /\ tokenFile = NoTokenFile
  /\ clientSecretFile = UnreadSecret
  /\ publisherCode = Undefined
  /\ flow = "NoCredentials"
  /\ authError = "none"
  /\ exit = "none"
  /\ listening = FALSE
  /\ browser = "none"
  /\ pending = {}
  /\ nextReq = 1
  /\ exchanges = {}
  /\ credentials = Undefined
  /\ au = NoHistory
  /\ call = IdleCall

Terminal == {"Loaded", "Authorized", "Failed"}

\* --------------------------------------------------------------- operator
\* The operator replaces or removes the token file.  Not while an
\* authorization flow runs: the file has a single writer then.
OperatorSetsTokenFile(f) ==
  /\ mode # "auth"
  /\ f # tokenFile
  /\ tokenFile' = f
  /\ UNCHANGED <<mode, run, clientSecretFile, publisherCode, flow, authError,
                 exit, listening, browser, pending, nextReq, exchanges,
                 credentials, au, call>>

\* ----------------------------------------------- index.ts, the auth command
\* `node index.js auth`: authorize() runs up to its first suspension, the
\* listen() call of authenticate().  readFileSync or JSON.parse throwing
\* inside the promise executor rejects the promise.  `secret` is the client
\* secret file the operator has in place for this run; the server path never
\* reads that file.
RunAuth(secret) ==
  /\ mode = "off"
  /\ run < MaxRuns
  /\ clientSecretFile' = secret
  /\ LET client == loadSavedCredentialsIfExist(tokenFile) IN
       /\ au' = [NoHistory EXCEPT !.mode = "auth",
                                  !.tokenAtStart = tokenFile,
                                  !.prevAuthOk = (au.mode = "auth" /\ exit = "0" /\ au.saved)]
       /\ IF ReturnsSavedClient(client)
          THEN flow' = "Loaded" /\ authError' = "none"
          ELSE IF ~ReadableSecret(secret) \/ ~HasKey(secret)
          THEN flow' = "Failed" /\ authError' = "ConfigError"
          ELSE flow' = "Binding" /\ authError' = "none"
  /\ mode' = "auth"
  /\ run' = run + 1
  /\ exit' = "none"
  /\ browser' = "none"
  /\ pending' = {}
  /\ nextReq' = 1
  /\ exchanges' = {}
  /\ credentials' = Undefined
  /\ publisherCode' = Undefined
  /\ listening' = FALSE
  /\ UNCHANGED <<tokenFile, call>>

\* listen(3000, cb): the port is bound and the callback opens the browser.
ListenOk ==
  /\ mode = "auth"
  /\ flow = "Binding"
  /\ listening' = TRUE
  /\ flow' = "AwaitingProviderRedirect"
  /\ browser' = "launching"
  /\ au' = [au EXCEPT !.opens = @ + 1, !.binds = @ + 1]
  /\ UNCHANGED <<mode, run, tokenFile, clientSecretFile, publisherCode,
                 authError, exit, pending, nextReq, exchanges, credentials, call>>

\* The port is taken: the server emits 'error', nothing listens for it, and
\* the process dies of the uncaught exception.
ListenFail ==
  /\ mode = "auth"
  /\ flow = "Binding"
  /\ flow' = "Failed"
  /\ authError' = "ListenerBindError"
  /\ UNCHANGED <<mode, run, tokenFile, clientSecretFile, publisherCode, exit,
                 listening, browser, pending, nextReq, exchanges, credentials, au, call>>

\* open(authorizeUrl).then(cp => cp.unref())
BrowserOpened ==
  /\ mode = "auth"
  /\ browser = "launching"
  /\ flow \notin Terminal
  /\ browser' = "opened"
  /\ UNCHANGED <<mode, run, tokenFile, clientSecretFile, publisherCode, flow,
                 authError, exit, listening, pending, nextReq, exchanges,
                 credentials, au, call>>

\* The browser cannot be opened.  Either open() still resolves (the launcher
\* was spawned and failed later) or it rejects; the rejection has no handler
\* and ends the process.
BrowserFailed(rejects) ==
  /\ mode = "auth"
  /\ browser = "launching"
  /\ flow \notin Terminal
  /\ browser' = "failed"
  /\ IF rejects
     THEN flow' = "Failed" /\ authError' = "BrowserOpenError"
     ELSE UNCHANGED <<flow, authError>>
  /\ UNCHANGED <<mode, run, tokenFile, clientSecretFile, publisherCode, exit,
                 listening, pending, nextReq, exchanges, credentials, au, call>>

\* An HTTP client sends a request; the listener accepts it.
Connect(u) ==
  /\ mode = "auth"
  /\ listening
  /\ flow \notin Terminal
  /\ nextReq <= MaxRequests
  /\ pending' = pending \cup {[id |-> nextReq, url |-> u]}
  /\ nextReq' = nextReq + 1
  /\ UNCHANGED <<mode, run, tokenFile, clientSecretFile, publisherCode, flow,
                 authError, exit, listening, browser, exchanges, credentials, au, call>>

\* The request handler, up to `await oAuth2Client.getToken(code)`.  A request
\* accepted before httpServer.close() is still handled after it.
HandleRequest(r) ==
  /\ mode = "auth"
  /\ r \in pending
  /\ flow \notin Terminal
  /\ pending' = pending \ {r}
  /\ IF IsCallback(r.url)
     THEN LET code == QsGetCode(r.url) IN
          /\ listening' = (listening /\ ListenerOpenAfterCallback(code))
          /\ IF StartsExchange(code)
             THEN /\ exchanges' = exchanges \cup {[id |-> r.id, code |-> code]}
                  /\ flow' = "ExchangingCode"
                  /\ authError' = authError
                  /\ au' = [au EXCEPT !.exchanged = @ \cup {r.id}]
             ELSE /\ flow' = "Failed"
                  /\ authError' = "MissingAuthCode"
                  /\ exchanges' = exchanges
                  /\ au' = [au EXCEPT !.codeless = @ \cup {r.id}]
     ELSE /\ au' = [au EXCEPT !.ignored = @ \cup {r.id}]
          /\ UNCHANGED <<listening, flow, authError, exchanges>>
  /\ UNCHANGED <<mode, run, tokenFile, clientSecretFile, publisherCode, exit,
                 browser, nextReq, credentials, call>>

\* getToken resolves: setCredentials(tokens); resolve(oAuth2Client).
ExchangeOk(x, refresh) ==
  /\ mode = "auth"
  /\ x \in exchanges
  /\ flow \notin Terminal
  /\ exchanges' = exchanges \ {x}
  /\ credentials' = refresh
  /\ flow' = "Authorized"
  /\ UNCHANGED <<mode, run, tokenFile, clientSecretFile, publisherCode,
                 authError, exit, listening, browser, pending, nextReq, au, call>>

\* catch (e) { reject(e) }: the state of the flow after an error in the
\* handler, given the state it was in.
SwallowError(f) == f

RejectOnError(f) == "Failed"

\* getToken rejects: catch (e) { reject(e) }.
ExchangeFail(x) ==
  /\ mode = "auth"
  /\ x \in exchanges
  /\ flow \notin Terminal
  /\ exchanges' = exchanges \ {x}
  /\ flow' = RejectOnError(flow)
  /\ authError' = "TokenExchangeError"
  /\ UNCHANGED <<mode, run, tokenFile, clientSecretFile, publisherCode, exit,
                 listening, browser, pending, nextReq, credentials, au, call>>

\* authorize() resumes with the client: saveCredentials(client).
SaveCredentials(diskOk) ==
  /\ mode = "auth"
  /\ flow = "Authorized"
  /\ ~au.saved
  /\ IF ~ReadableSecret(clientSecretFile) \/ ~HasKey(clientSecretFile)
     THEN /\ flow' = "Failed" /\ authError' = "ConfigError"
          /\ UNCHANGED <<tokenFile, au>>
     ELSE IF ~diskOk
     THEN /\ flow' = "Failed" /\ authError' = "PersistError"
          /\ UNCHANGED <<tokenFile, au>>
     ELSE /\ tokenFile' = JsonParseToken(TokenPayload(clientSecretFile, credentials, tokenFile))
          /\ au' = [au EXCEPT !.writes = @ + 1, !.saved = TRUE]
          /\ UNCHANGED <<flow, authError>>
  /\ UNCHANGED <<mode, run, clientSecretFile, publisherCode, exit, listening,
                 browser, pending, nextReq, exchanges, credentials, call>>

\* authorize().then(() => process.exit(0)); a rejection of authorize() has no
\* handler and ends the process with a non-zero status.
ExitZero(f) == "0"

ExitStatus(f) == IF f = "Failed" THEN "1" ELSE "0"

AuthExit ==
  /\ mode = "auth"
  /\ \/ flow = "Loaded"
     \/ flow = "Authorized" /\ au.saved
     \/ flow = "Failed"
  /\ exit' = ExitStatus(flow)
  /\ mode' = "off"
  /\ listening' = FALSE
  /\ pending' = {}
  /\ exchanges' = {}
  /\ UNCHANGED <<run, tokenFile, clientSecretFile, publisherCode, flow,
                 authError, browser, nextReq, credentials, au, call>>

\* ------------------------------------------------ index.ts, the server path
\* `node index.js`: main() connects the stdio transport.
RunServe(code) ==
  /\ mode = "off"
  /\ run < MaxRuns
  /\ mode' = "serve"
  /\ run' = run + 1
  /\ publisherCode' = code
  /\ exit' = "none"
  /\ flow' = "NoCredentials"
  /\ authError' = "none"
  /\ browser' = "none"
  /\ nextReq' = 1
  /\ credentials' = Undefined
  /\ au' = [NoHistory EXCEPT !.mode = "serve", !.tokenAtStart = tokenFile]
  /\ call' = IdleCall
  /\ clientSecretFile' = UnreadSecret
  /\ UNCHANGED <<tokenFile, listening, pending, exchanges>>

\* The MCP client closes the session.
StopServer ==
  /\ mode = "serve"
  /\ call.phase = "idle"
  /\ mode' = "off"
  /\ exit' = "0"
  /\ call' = IdleCall
  /\ UNCHANGED <<run, tokenFile, clientSecretFile, publisherCode, flow,
                 authError, listening, browser, pending, nextReq, exchanges,
                 credentials, au>>

\* ------------------------------------- tools.ts, CallToolRequestSchema handler
\* `const auth = await loadSavedCredentialsIfExist()` is the first statement
\* of the handler: the file read is the one on disk when the call starts, not
\* the one that was there when the server started.
TokenFileCached(current, atServerStart) == atServerStart

TokenFileRead(current, atServerStart) == current

Request(api, token, spec) ==
  [api |-> api, parent |-> publisherCode, pageToken |-> token, spec |-> spec]

\* The handler up to its first API request.
CallTool(name, args) ==
  /\ mode = "serve"
  /\ call.phase = "idle"
  /\ LET auth == loadSavedCredentialsIfExist(TokenFileRead(tokenFile, au.tokenAtStart))
         begun == [IdleCall EXCEPT !.name = name, !.client = IsClient(auth),
                                   !.fileAtStart = tokenFile]
         return(r) == [begun EXCEPT !.phase = "returned", !.response = r]
         returnA(r) == [begun EXCEPT !.phase = "returned", !.response = r,
                                     !.args = args]
         send(q) == [begun EXCEPT !.phase = "awaiting", !.last = q,
                                  !.sent = <<q>>, !.args = args]
     IN call' =
          IF ~IsClient(auth)
          THEN return(Soft("Not Authenticated. Try running npm run auth to authenticate."))
          ELSE IF PublisherMissing(publisherCode)
          THEN return(Soft("PUBLISHER_CODE environment variable not set."))
          ELSE IF name \in ReportTools
          THEN IF ~args.def
               THEN returnA(Soft("No arguments provided."))
               ELSE IF SplitThrows(args)
               THEN [returnA(Thrown("TypeError")) EXCEPT !.phase = "threw"]
               ELSE IF MissingRequired(args)
               THEN returnA(Soft("Missing required parameters."))
               ELSE IF SortThrows(args)
               THEN [returnA(Thrown("TypeError")) EXCEPT !.phase = "threw"]
               ELSE send(Request(ReportApi(name), Undefined, reportSpec(args)))
          ELSE IF name = "get_account"
          THEN send(Request("accounts.get", Undefined, NoSpec))
          ELSE IF name \in ListTools
          THEN send(Request(ListApi(name), Undefined, NoSpec))
          ELSE [return(UnknownTool(name)) EXCEPT !.phase = "threw"]
  /\ UNCHANGED <<mode, run, tokenFile, clientSecretFile, publisherCode, flow,
                 authError, exit, listening, browser, pending, nextReq,
                 exchanges, credentials, au>>

\* The handler has returned or thrown: the MCP server sends the result, or
\* the error, to the client, and the next call can be taken.
Reply ==
  /\ mode = "serve"
  /\ call.phase \in {"returned", "threw"}
  /\ call' = IdleCall
  /\ au' = [au EXCEPT !.prevCall = IF call.client THEN "client" ELSE "no client"]
  /\ UNCHANGED <<mode, run, tokenFile, clientSecretFile, publisherCode, flow,
                 authError, exit, listening, browser, pending, nextReq,
                 exchanges, credentials>>

\* The API client throws (network failure, or an HTTP error the client
\* library raises).  Only the two list branches have a try/catch.
ApiThrows ==
  /\ mode = "serve"
  /\ call.phase = "awaiting"
  /\ call' = IF call.name \in ListTools
             THEN [call EXCEPT !.phase = "returned",
                               !.response = Failed("An error occurred", 0)]
             ELSE [call EXCEPT !.phase = "threw",
                               !.response = Thrown("API error")]
  /\ UNCHANGED <<mode, run, tokenFile, clientSecretFile, publisherCode, flow,
                 authError, exit, listening, browser, pending, nextReq,
                 exchanges, credentials, au>>

\* `if (!result.ok)`
ApiNotOk(status) ==
  /\ mode = "serve"
  /\ call.phase = "awaiting"
  /\ call' = [call EXCEPT !.phase = "returned",
                          !.response = Failed("API request failed", status)]
  /\ UNCHANGED <<mode, run, tokenFile, clientSecretFile, publisherCode, flow,
                 authError, exit, listening, browser, pending, nextReq,
                 exchanges, credentials, au>>

\* get_account and the two reports: one successful response.
ApiOk ==
  /\ mode = "serve"
  /\ call.phase = "awaiting"
  /\ call.name \notin ListTools
  /\ call' = [call EXCEPT !.phase = "returned",
                          !.response = Content(call.name, <<>>)]
  /\ UNCHANGED <<mode, run, tokenFile, clientSecretFile, publisherCode, flow,
                 authError, exit, listening, browser, pending, nextReq,
                 exchanges, credentials, au>>

\* One turn of the do-while loop of list_ad_units / list_apps: a page
\* arrives, its items are pushed, and the loop requests the next page or
\* returns.  The provider has at most MaxPages pages.
ApiPage(page) ==
  /\ mode = "serve"
  /\ call.phase = "awaiting"
  /\ call.name \in ListTools
  /\ Len(call.pages) < MaxPages
  /\ Len(call.pages) + 1 = MaxPages => ~Truthy(page.nextPageToken)
  /\ LET all == Push(call.all, page)
         token == NextToken(page)
         got == [call EXCEPT !.pages = Append(@, page), !.all = all,
                             !.pageToken = token]
     IN call' =
          IF WhilePageToken(token)
          THEN [got EXCEPT !.last = Request(ListApi(call.name), token, NoSpec),
                           !.sent = Append(@, Request(ListApi(call.name), token, NoSpec))]
          ELSE [got EXCEPT !.phase = "returned",
                           !.response = Content(call.name, all)]
  /\ UNCHANGED <<mode, run, tokenFile, clientSecretFile, publisherCode, flow,
                 authError, exit, listening, browser, pending, nextReq,
                 exchanges, credentials, au>>

Next ==
  \/ \E f \in OperatorTokenFiles : OperatorSetsTokenFile(f)
  \/ \E secret \in ClientSecretFiles : RunAuth(secret)
  \/ ListenOk
  \/ ListenFail
  \/ BrowserOpened
  \/ \E rejects \in BOOLEAN : BrowserFailed(rejects)
  \/ \E u \in Urls : Connect(u)
  \/ \E r \in pending : HandleRequest(r)
  \/ \E x \in exchanges, refresh \in RefreshTokens : ExchangeOk(x, refresh)
  \/ \E x \in exchanges : ExchangeFail(x)
  \/ \E diskOk \in BOOLEAN : SaveCredentials(diskOk)
  \/ AuthExit
  \/ \E code \in {Undefined, "", "pub-1"} : RunServe(code)
  \/ StopServer
  \/ \E name \in CalledNames :
       \E args \in (IF name \in ReportTools THEN ReportArgs ELSE {NoArgs}) :
         CallTool(name, args)
  \/ Reply
  \/ ApiThrows
  \/ \E status \in Statuses : ApiNotOk(status)
  \/ ApiOk
  \/ \E page \in Pages(Len(call.pages) + 1) : ApiPage(page)

Spec == Init /\ [][Next]_vars

\* ================================================================== claims

RECURSIVE Flatten(_)
\* The items of the pages, page after page.
Flatten(pages) ==
  IF pages = <<>> THEN <<>>
  ELSE (IF Head(pages).items.def THEN Head(pages).items.v ELSE <<>>)
       \o Flatten(Tail(pages))

EmptyToken(page) == page.nextPageToken \in {Undefined, Null, ""}

\* C1: list_ad_units and list_apps return the concatenation of the items of
\* the pages the provider served, in page order, nothing dropped or repeated,
\* and the loop asks for a further page exactly while the page just served
\* carries a non-empty nextPageToken: every served page but the last has one,
\* every request after the first carries the token of the page before it, and
\* the call returns at the first page without one.
C1_PaginationConcatenates ==
  (call.name \in ListTools /\ call.phase \in {"awaiting", "returned"}) =>
    /\ call.all = Flatten(call.pages)
    /\ \A i \in 1..Len(call.pages) :
         i < Len(call.pages) => ~EmptyToken(call.pages[i])
    /\ \A i \in 1..Len(call.sent) :
         /\ call.sent[i].api = ListApi(call.name)
         /\ call.sent[i].pageToken =
              (IF i = 1 THEN Undefined ELSE call.pages[i - 1].nextPageToken)
    /\ call.phase = "awaiting" =>
         /\ Len(call.sent) = Len(call.pages) + 1
         /\ call.pages # <<>> => ~EmptyToken(call.pages[Len(call.pages)])
    /\ (call.phase = "returned" /\ ~call.response.isError) =>
         /\ call.response.items = Flatten(call.pages)
         /\ \A i, j \in 1..Len(call.response.items) :
              i # j => call.response.items[i] # call.response.items[j]
         /\ Len(call.sent) = Len(call.pages)
         /\ call.pages # <<>>
         /\ EmptyToken(call.pages[Len(call.pages)])

C1_Witness ==
  /\ call.name = "list_ad_units"
  /\ call.phase = "returned"
  /\ ~call.response.isError
  /\ Len(call.pages) >= 2
  /\ Len(call.response.items) >= 2
  /\ call.pages[Len(call.pages)].nextPageToken = ""

\* C2: a tool call started when the token file gives no usable client, or
\* when PUBLISHER_CODE is not set, comes back as content with isError (the
\* "Not Authenticated" text in the first case), is not thrown, and no API
\* request is sent for it.
C2_PreconditionsAreSoftErrors ==
  (/\ mode = "serve"
   /\ call.phase # "idle"
   /\ \/ ~IsClient(loadSavedCredentialsIfExist(call.fileAtStart))
      \/ publisherCode \in {Undefined, ""}) =>
    /\ call.phase = "returned"
    /\ call.response.kind = "content"
    /\ call.response.isError
    /\ call.sent = <<>>
    /\ ~IsClient(loadSavedCredentialsIfExist(call.fileAtStart)) =>
         call.response.text = "Not Authenticated. Try running npm run auth to authenticate."

C2_Witness ==
  /\ mode = "serve"
  /\ call.phase = "returned"
  /\ call.name = "list_apps"
  /\ call.fileAtStart.kind = "json"
  /\ ~call.client
  /\ publisherCode = "pub-1"
  /\ call.response.isError

\* C3 (as claimed): a call to one of the five tools whose API request fails,
\* by a non-success response or by a throw of the API client, is answered
\* with isError content and the handler does not throw.
C3_KnownToolsNeverThrow ==
  (call.name \in ToolNames /\ call.sent # <<>>) => call.phase # "threw"

\* A report call that got past the credential and publisher checks.
ReportCall == call.name \in ReportTools /\ call.phase # "idle" /\ call.args.def

\* C4 (as claimed): a report call whose arguments lack dateRangeStart,
\* dateRangeEnd or metrics is answered with isError content, is not thrown,
\* and sends no API request.
C4_MissingArgumentIsSoftError ==
  (/\ ReportCall
   /\ \/ call.args.dateRangeStart = Undefined
      \/ call.args.dateRangeEnd = Undefined
      \/ ~call.args.metrics.def) =>
    /\ call.phase = "returned"
    /\ call.response.kind = "content"
    /\ call.response.isError
    /\ call.sent = <<>>

\* C5: a callback request without a code makes the flow fail with
\* MissingAuthCode; the listener is closed by then, the handling of that
\* request starts no exchange, none is started afterwards, and the token
\* file keeps the content it had when the flow started.
C5_MissingCodeFailsFlow ==
  /\ [](au.codeless # {} => flow = "Failed" /\ authError = "MissingAuthCode")
  /\ [](authError = "MissingAuthCode" =>
          /\ flow = "Failed"
          /\ au.codeless # {}
          /\ ~listening
          /\ au.writes = 0
          /\ ~au.saved
          /\ tokenFile = au.tokenAtStart \/ mode # "auth")
  /\ [][(run' = run /\ (au'.codeless # au.codeless \/ authError = "MissingAuthCode")) =>
          (au'.exchanged = au.exchanged /\ exchanges' \subseteq exchanges)]_vars

C5_Witness ==
  /\ mode = "auth"
  /\ authError = "MissingAuthCode"
  /\ au.codeless # {}
  /\ au.exchanged = {}
  /\ browser = "opened"

\* C6 (as claimed): in one run of the flow the code-for-token exchange is
\* started at most once, and no two exchanges are in flight together.
C6_AtMostOneExchange ==
  Cardinality(au.exchanged) <= 1 /\ Cardinality(exchanges) <= 1

\* The state in which authorize() has completed and process.exit(0) is next.
AuthSucceeded ==
  mode = "auth" /\ (flow = "Loaded" \/ (flow = "Authorized" /\ au.saved))

\* The record saveCredentials builds from the client secret and the client.
ExpectedToken ==
  [kind |-> "json", type |-> "authorized_user",
   client_id |-> clientSecretFile.client_id,
   client_secret |-> clientSecretFile.client_secret,
   refresh_token |-> credentials, extra |-> Undefined]

\* C7 (as claimed): an auth run that follows an auth run which went through
\* the flow and stored its token (prevAuthOk) opens the browser again and
\* writes the token file again.
C7_SecondRunAuthenticatesAgain ==
  (AuthSucceeded /\ au.prevAuthOk) => (au.opens = 1 /\ au.writes = 1)

\* C7 (amended): a successful auth run that found a loadable token performs
\* no browser interaction and leaves the token file as it was; a successful
\* run that found none binds the listener and opens the browser exactly once
\* and leaves in the token file exactly the record built from the client
\* secret and the exchanged refresh token, nothing of the prior content.
C7_RerunOverwritesUnlessLoadable ==
  AuthSucceeded =>
    IF IsClient(loadSavedCredentialsIfExist(au.tokenAtStart))
    THEN au.opens = 0 /\ au.binds = 0 /\ au.writes = 0 /\ tokenFile = au.tokenAtStart
    ELSE au.opens = 1 /\ au.binds = 1 /\ au.writes = 1 /\ tokenFile = ExpectedToken

C7_Witness ==
  /\ AuthSucceeded
  /\ au.prevAuthOk
  /\ au.saved
  /\ au.tokenAtStart.kind = "json"
  /\ tokenFile # au.tokenAtStart

\* C8: the server process binds no listener, opens no browser and does not
\* write the token file, whatever tool calls it serves and whatever the token
\* file holds; and authorize() started with a loadable token file returns the
\* saved client without binding the listener.
C8_ServerNeverAuthorizes ==
  /\ mode = "serve" =>
       /\ ~listening
       /\ browser = "none"
       /\ flow = "NoCredentials"
       /\ au.binds = 0 /\ au.opens = 0 /\ au.writes = 0
       /\ pending = {} /\ exchanges = {}
  /\ (au.mode = "auth" /\ IsClient(loadSavedCredentialsIfExist(au.tokenAtStart))) =>
       /\ flow = "Loaded"
       /\ ~listening
       /\ au.binds = 0 /\ au.opens = 0 /\ au.writes = 0

C8_Witness ==
  /\ mode = "serve"
  /\ run = 2
  /\ call.phase = "returned"
  /\ call.client
  /\ ~call.response.isError
  /\ ~IsClient(loadSavedCredentialsIfExist(tokenFile))

FullSort(cond) == cond.def /\ Truthy(cond.field) /\ Truthy(cond.order)

SortEntry(by, cond) == [by |-> by, name |-> cond.field, order |-> cond.order]

\* The required arguments are all in place.
RequiredGiven(a) ==
  a.def /\ Truthy(a.dateRangeStart) /\ Truthy(a.dateRangeEnd) /\ a.metrics.def

\* C9: a report call with both sort conditions fully specified sends a report
\* spec whose sortConditions are exactly the dimension sort followed by the
\* metric sort; a report call with neither sends a spec without the
\* sortConditions key.
C9_BothSortsInOrder ==
  (ReportCall /\ RequiredGiven(call.args)) =>
    LET d == call.args.dimensionSortCondition
        m == call.args.metricSortCondition
    IN /\ (FullSort(d) /\ FullSort(m)) =>
            /\ call.sent # <<>>
            /\ "sortConditions" \in call.sent[1].spec.keys
            /\ call.sent[1].spec.sortConditions =
                 <<SortEntry("dimension", d), SortEntry("metric", m)>>
       /\ (~d.def /\ ~m.def) =>
            /\ call.sent # <<>>
            /\ "sortConditions" \notin call.sent[1].spec.keys

C9_Witness ==
  /\ ReportCall
  /\ call.phase = "returned"
  /\ FullSort(call.args.dimensionSortCondition)
  /\ FullSort(call.args.metricSortCondition)
  /\ Len(call.sent[1].spec.sortConditions) = 2

\* C10 (as claimed): a report call in which a sort condition is given but not
\* fully specified (a field of it empty or absent) does not throw and reaches
\* the API, and its sortConditions hold exactly the sort conditions that are
\* fully specified.
C10_PartialSortIsDropped ==
  (/\ ReportCall
   /\ RequiredGiven(call.args)
   /\ \/ call.args.dimensionSortCondition.def /\ ~FullSort(call.args.dimensionSortCondition)
      \/ call.args.metricSortCondition.def /\ ~FullSort(call.args.metricSortCondition)) =>
    LET d == call.args.dimensionSortCondition
        m == call.args.metricSortCondition
    IN /\ call.phase # "threw"
       /\ call.sent # <<>>
       /\ call.sent[1].spec.sortConditions =
            (IF FullSort(d) THEN <<SortEntry("dimension", d)>> ELSE <<>>)
            \o (IF FullSort(m) THEN <<SortEntry("metric", m)>> ELSE <<>>)

\* C11: a report call that reaches the API with dimensionFilters given sends
\* provider filters of the same length, entry i built from entry i of the
\* argument: the same dimension, and the same values, in the same order,
\* under matchesAny.
C11_FiltersMappedOneToOne ==
  (ReportCall /\ call.sent # <<>> /\ call.args.dimensionFilters.def
   /\ call.args.dimensionFilters.v # <<>>) =>
    LET given == call.args.dimensionFilters.v
        out == call.sent[1].spec.dimensionFilters
    IN /\ "dimensionFilters" \in call.sent[1].spec.keys
       /\ Len(out) = Len(given)
       /\ \A i \in 1..Len(given) :
            /\ out[i].dimension = given[i].dimension
            /\ out[i].matchesAny.values = given[i].values
            /\ DOMAIN out[i] = {"dimension", "matchesAny"}
            /\ DOMAIN out[i].matchesAny = {"values"}

C11_Witness ==
  /\ ReportCall
  /\ call.phase = "returned"
  /\ ~call.response.isError
  /\ call.args.dimensionFilters = Arr(<<Filter2, Filter1>>)
  /\ Len(call.sent[1].spec.dimensionFilters) = 2

\* C12 (as claimed): after a successful authorization flow the token file
\* holds exactly the four keys type, client_id, client_secret and
\* refresh_token: the literal "authorized_user", the client id and secret of
\* the client secret file, the refresh token the exchange returned, and
\* nothing of the content the file had before.
C12_TokenFileHoldsRecord ==
  (mode = "auth" /\ flow = "Authorized" /\ au.saved) =>
    /\ tokenFile.kind = "json"
    /\ tokenFile.type = "authorized_user"
    /\ tokenFile.client_id = clientSecretFile.client_id
    /\ tokenFile.client_secret = clientSecretFile.client_secret
    /\ tokenFile.refresh_token = credentials
    /\ tokenFile.refresh_token # Undefined
    /\ tokenFile.extra = Undefined

\* A token file that is absent or unreadable, is not JSON, or is JSON but not
\* a usable authorized_user record.
UnusableTokenFile(file) ==
  \/ file.kind # "json"
  \/ file.type # "authorized_user"
  \/ file.client_id \in {Undefined, Null, ""}
  \/ file.client_secret \in {Undefined, Null, ""}
  \/ file.refresh_token \in {Undefined, Null, ""}

\* C13: loading an unusable token file never raises and yields null, and the
\* callers go on as not authenticated: a tool call answers with the
\* "Not Authenticated" soft error, having thrown nothing and sent nothing, and
\* an auth run does not stop at the saved-client shortcut but goes into the
\* flow (where the only failure it can have had so far is its own).
C13_UnusableFileLoadsAsNull ==
  /\ \A f \in OperatorTokenFiles :
       UnusableTokenFile(f) => loadSavedCredentialsIfExist(f).refresh_token = Null
  /\ UnusableTokenFile(tokenFile) => ~IsClient(loadSavedCredentialsIfExist(tokenFile))
  /\ (call.phase # "idle" /\ UnusableTokenFile(call.fileAtStart)) =>
       /\ call.phase = "returned"
       /\ call.response =
            Soft("Not Authenticated. Try running npm run auth to authenticate.")
       /\ call.sent = <<>>
  /\ (mode = "auth" /\ UnusableTokenFile(au.tokenAtStart)) => flow # "Loaded"

C13_Witness ==
  /\ mode = "serve"
  /\ call.phase = "returned"
  /\ call.name \in ToolNames
  /\ call.fileAtStart.kind = "json"
  /\ call.fileAtStart.refresh_token = Undefined
  /\ call.response.isError

\* C14 (as claimed): a call with a name that is not a registered tool ends in
\* a thrown error, whatever the token file and PUBLISHER_CODE are.
C14_UnknownToolAlwaysThrows ==
  (call.phase # "idle" /\ call.name \notin ToolNames) =>
    /\ call.phase = "threw"
    /\ call.response.kind = "throw"

\* C14 (amended): a call with a name that is not a registered tool ends in a
\* thrown error when the token file gives a usable client and PUBLISHER_CODE
\* is set; when either is missing, the precondition checks, which come before
\* the dispatch on the name, answer it with isError content like any other
\* call.  Nothing is sent to the API in either case.
C14_UnknownToolThrowsPastPreconditions ==
  (call.phase # "idle" /\ call.name \notin ToolNames) =>
    /\ call.sent = <<>>
    /\ IF /\ ~UnusableTokenFile(call.fileAtStart)
          /\ publisherCode \notin {Undefined, ""}
       THEN /\ call.phase = "threw"
            /\ call.response.kind = "throw"
            /\ ~call.response.isError
            /\ call.response.text = "Unknown tool"
       ELSE /\ call.phase = "returned"
            /\ call.response.kind = "content"
            /\ call.response.isError

C14_Witness ==
  /\ call.phase = "threw"
  /\ call.name = "no_such_tool"
  /\ call.response.kind = "throw"
  /\ publisherCode = "pub-1"

\* C15 (as claimed): a failure to open the browser is not fatal to the flow:
\* the step in which the launch fails leaves the listener bound and the flow
\* where it was, waiting for the callback, and after it the flow never fails
\* for want of a browser.
C15_BrowserFailureNotFatal ==
  /\ [][(browser = "launching" /\ browser' = "failed") =>
          (listening' /\ flow' = flow /\ authError' = authError)]_vars
  /\ [](authError # "BrowserOpenError")

\* C16 (as claimed): a report call whose metrics list is empty is rejected as
\* a validation failure and sends no report request.  Stated for calls whose
\* two dates are given, so that the empty list is the only thing wrong with
\* the call.
C16_EmptyMetricsRejected ==
  (/\ ReportCall
   /\ call.args.dateRangeStart = "2024-01-01"
   /\ call.args.dateRangeEnd = "2024-01-07"
   /\ call.args.metrics = Arr(<<>>)) =>
    /\ call.phase = "returned"
    /\ call.response.kind = "content"
    /\ call.response.isError
    /\ call.sent = <<>>

AuthFlowErrors ==
  {"ConfigError", "ListenerBindError", "BrowserOpenError", "MissingAuthCode",
   "TokenExchangeError", "PersistError"}

\* C17 (as claimed): a process started with auth that exits with status zero
\* has run the flow, once: it bound the listener once and wrote the token
\* file once; it exits non-zero exactly on a failure of the flow; and a
\* process started without auth runs no flow.
C17_AuthRunsFlowOnce ==
  /\ (au.mode = "auth" /\ exit = "0") =>
       /\ flow = "Authorized"
       /\ au.binds = 1 /\ au.writes = 1
  /\ (au.mode = "auth" /\ exit = "1") => flow = "Failed"
  /\ au.mode = "serve" => au.binds = 0 /\ au.writes = 0

\* C17 (amended): a process started with auth runs the flow at most once, and
\* not at all when the token file already loads.  It exits with status zero
\* only when authorize() resolved: through the saved-client shortcut, with no
\* listener and no write, or through a flow that bound once, exchanged and
\* wrote the token file once.  It exits non-zero only after a failure, every
\* kind of failure of the flow (config, bind, browser, missing code,
\* exchange, persist) can only be followed by a non-zero exit, and no step
\* changes the status once set.  A process started without auth binds no
\* listener, opens no browser, starts no exchange and writes no token.
C17_AuthExitsByOutcome ==
  /\ [](au.mode = "auth" =>
          /\ au.binds <= 1 /\ au.writes <= 1
          /\ exit \in {"none", "0", "1"}
          /\ exit = "0" =>
               \/ /\ flow = "Loaded"
                  /\ ~UnusableTokenFile(au.tokenAtStart)
                  /\ au.binds = 0 /\ au.writes = 0
               \/ /\ flow = "Authorized"
                  /\ UnusableTokenFile(au.tokenAtStart)
                  /\ au.saved
                  /\ au.binds = 1 /\ au.writes = 1
          /\ exit = "1" => flow = "Failed" /\ authError \in AuthFlowErrors
          /\ flow = "Failed" => exit # "0" /\ authError \in AuthFlowErrors)
  /\ [](au.mode = "serve" =>
          /\ au.binds = 0 /\ au.opens = 0 /\ au.writes = 0
          /\ au.exchanged = {} /\ au.codeless = {}
          /\ exit \in {"none", "0"})
  /\ [][(mode = "auth" /\ exit' # exit) =>
          /\ exit = "none"
          /\ flow \in Terminal
          /\ exit' = (IF flow = "Failed" THEN "1" ELSE "0")
          /\ mode' = "off" /\ ~listening']_vars

C17_Witness ==
  /\ au.mode = "auth"
  /\ mode = "off"
  /\ exit = "1"
  /\ authError = "PersistError"
  /\ au.binds = 1

\* C18 (as claimed): the listener takes a request for the callback only if
\* its path is /oauth2callback; handling a request with any other path, even
\* one whose query string contains the text /oauth2callback, leaves the
\* listener open, starts no exchange and does not settle the flow.
C18_OnlyCallbackPathIsHandled ==
  [][\A r \in pending :
       (r \notin pending' /\ mode' = "auth" /\ r.url.path # "/oauth2callback") =>
         /\ listening' = listening
         /\ exchanges' = exchanges
         /\ flow' = flow
         /\ authError' = authError]_vars

\* C19: once the code exchange has failed, the flow is in failure and stays
\* there: the listener is closed, so no further callback is awaited; no new
\* exchange is started, for the failed code or any other; nothing is saved;
\* and until the process ends the token file is the file the run found when
\* it started.  The only step left to the process is its exit, non-zero.
C19_ExchangeFailureEndsFlow ==
  /\ []((mode = "auth" /\ authError = "TokenExchangeError") =>
          /\ flow = "Failed"
          /\ ~listening
          /\ ~au.saved /\ au.writes = 0
          /\ tokenFile = au.tokenAtStart
          /\ exit = "none")
  /\ [][(mode = "auth" /\ authError = "TokenExchangeError") =>
          /\ exit' = "1" /\ mode' = "off"
          /\ tokenFile' = tokenFile
          /\ au' = au
          /\ exchanges' = {} /\ pending' = {}
          /\ flow' = "Failed"]_vars

C19_Witness ==
  /\ mode = "off"
  /\ au.mode = "auth"
  /\ exit = "1"
  /\ authError = "TokenExchangeError"
  /\ au.exchanged # {}
  /\ au.tokenAtStart.kind = "json"
  /\ tokenFile = au.tokenAtStart

\* C20: a tool call reads the token file when it starts and at no other time.
\* The call is answered "Not Authenticated" exactly when the file on disk at
\* that moment is unusable, whatever the calls before it found and whatever
\* file the server started with; a write or removal of the file while the
\* call is in progress changes nothing for that call, and is seen by the
\* next one.
C20_CallReadsTokenFileAtStart ==
  /\ [](call.phase # "idle" =>
          /\ call.client = ~UnusableTokenFile(call.fileAtStart)
          /\ UnusableTokenFile(call.fileAtStart) <=>
               (call.response =
                  Soft("Not Authenticated. Try running npm run auth to authenticate.")))
  /\ [][(call.phase = "idle" /\ call'.phase # "idle") =>
          /\ call'.fileAtStart = tokenFile
          /\ call'.client = ~UnusableTokenFile(tokenFile)
          /\ au' = au]_vars
  /\ [][(call.phase # "idle" /\ call'.phase # "idle") =>
          /\ call'.fileAtStart = call.fileAtStart
          /\ call'.client = call.client]_vars

C20_Witness ==
  /\ mode = "serve"
  /\ au.prevCall = "client"
  /\ ~UnusableTokenFile(au.tokenAtStart)
  /\ call.phase = "returned"
  /\ call.fileAtStart = NoTokenFile
  /\ ~call.client
  /\ call.response.isError
  /\ ~UnusableTokenFile(tokenFile)

\* C21 (as claimed): save/load round trip.  Whenever authorize() has run the
\* flow and saved, for every token response the exchange can give, the file
\* it wrote has a non-empty refresh_token and loading that file gives a
\* usable client, not null.
C21_SavedTokenLoads ==
  (mode = "auth" /\ flow = "Authorized" /\ au.saved /\ au.exchanged # {}) =>
    /\ Truthy(tokenFile.refresh_token)
    /\ IsClient(loadSavedCredentialsIfExist(tokenFile))
    /\ loadSavedCredentialsIfExist(tokenFile).refresh_token = credentials
====
